---- MODULE Spec2Model ----
(***************************************************************************)
(* A model of the object store of a-git (src/src/object.go): the frame     *)
(* that GitObject.Write builds, hashes, compresses and stores under        *)
(* gitdir/objects/<sha[:2]>/<sha[2:]>, and ReadObjectFile / ReadObject,    *)
(* which read such a file back.                                            *)
(*                                                                         *)
(* Strings and byte slices are sequences of byte values (0..255); a path   *)
(* is a sequence of path components, each a sequence of bytes.  The file   *)
(* system is the pair (dirs, files): the set of directories that exist     *)
(* and a function from the paths of the regular files to their contents.   *)
(*                                                                         *)
(* Library code is modelled by what it does at the level the claims need:  *)
(*   - crypto/sha1 is an injective 20-byte digest (no collisions) whose    *)
(*     first byte mixes the bytes of the input, so that different inputs   *)
(*     may or may not share their first byte (the fan-out directory);      *)
(*   - compress/zlib is a stream with the two header bytes 0x78 0x9c, one  *)
(*     stored block (a length byte and the data) and a one-byte checksum;  *)
(*     the reader checks the header, the length and the checksum.          *)
(***************************************************************************)
EXTENDS Integers, Sequences, FiniteSets, TLC

VARIABLES dirs, files, res, procs

vars == <<dirs, files, res, procs>>

(***************************************************************************)
(* Bounds of the model.                                                    *)
(***************************************************************************)
\* The longest payload (obj.Data) handed to Write.
MaxData == 1
\* The most object files the sequential specification lets the store hold.
MaxObjects == 1
\* The longest decompressed content of the file that SpecDecode reads.
MaxRaw == 3

(***************************************************************************)
(* Bytes and strings.                                                      *)
(***************************************************************************)
Space == 32
Null == 0
Minus == 45
Zero == 48

\* obj.Kind values: "blob" and "tree" (no space, no null byte).
Kinds == { <<98, 108, 111, 98>>, <<116, 114, 101, 101>> }

\* The bytes a payload is made of: the two bytes that delimit the header.
DataBytes == {Null, Space}

RECURSIVE SeqsUpTo(_, _)
SeqsUpTo(S, n) ==
    IF n = 0 THEN { <<>> }
    ELSE LET shorter == SeqsUpTo(S, n - 1)
         IN  shorter \cup { Append(s, b) : s \in {t \in shorter : Len(t) = n - 1}, b \in S }

\* The (kind, payload) pairs Write is called with.
Objects == [Kind : Kinds, Data : SeqsUpTo(DataBytes, MaxData)]

\* GitObject{}: the zero value.
EmptyObject == [Kind |-> <<>>, Size |-> <<>>, Data |-> <<>>]

RECURSIVE SumBytes(_)
SumBytes(s) == IF s = <<>> THEN 0 ELSE Head(s) + SumBytes(Tail(s))

RECURSIVE Digits(_)
Digits(n) == IF n < 10 THEN <<Zero + n>> ELSE Digits(n \div 10) \o <<Zero + (n % 10)>>

\* strconv.Itoa
Itoa(n) == IF n < 0 THEN <<Minus>> \o Digits(0 - n) ELSE Digits(n)

\* bytes.IndexByte: the 0-based index of the first b in s, -1 when there is none.
IndexByte(s, b) ==
    LET hits == { i \in 1..Len(s) : s[i] = b }
    IN  IF hits = {} THEN 0 - 1
        ELSE (CHOOSE i \in hits : \A j \in hits : i <= j) - 1

(***************************************************************************)
(* Write, lines 29-43: the frame, its digest and the digest's hex text.    *)
(***************************************************************************)
bKind(obj) == obj.Kind

bSize(obj) == Itoa(Len(obj.Data) - 1)

bData(obj) == obj.Data

\* (mutant of content) the header is left out of what is hashed and stored.
contentDataOnly(obj) == bData(obj)

content(obj) == bKind(obj) \o <<Space>> \o bSize(obj) \o <<Null>> \o bData(obj)

\* The length of a digest in bytes (sha1.Size).
ShaSize == 20

\* sha1: injective on the frames of the model (all shorter than ShaSize - 2).
sha(c) ==
    <<SumBytes(c) % 16, Len(c)>> \o c \o [i \in 1..(ShaSize - 2 - Len(c)) |-> 0]

HexChars == <<48, 49, 50, 51, 52, 53, 54, 55, 56, 57, 97, 98, 99, 100, 101, 102>>

\* hex.EncodeToString
RECURSIVE EncodeToString(_)
EncodeToString(bs) ==
    IF bs = <<>> THEN <<>>
    ELSE <<HexChars[(Head(bs) \div 16) + 1], HexChars[(Head(bs) % 16) + 1]>>
             \o EncodeToString(Tail(bs))

shaStr(obj) == EncodeToString(sha(content(obj)))

(***************************************************************************)
(* Paths.                                                                  *)
(***************************************************************************)
\* The directory the store root lies in: it always exists.
WorkDir == << <<119, 111, 114, 107>> >>

\* The gitdir handed to Write: "work/.git".
GitDir == WorkDir \o << <<46, 103, 105, 116>> >>

\* "objects"
ObjectsName == <<111, 98, 106, 101, 99, 116, 115>>

\* path.Join(gitdir, "objects", shaStr[:2])
FanOutDir(gitdir, s) == gitdir \o <<ObjectsName, SubSeq(s, 1, 2)>>

\* (mutant of nFilePath) the file is named shaStr[:2] as well.
nFilePathPrefixTwice(gitdir, s) == FanOutDir(gitdir, s) \o <<SubSeq(s, 1, 2)>>

\* filepath.Abs(path.Join(gitdir, "objects", shaStr[:2], shaStr[2:]))
nFilePath(gitdir, s) == FanOutDir(gitdir, s) \o <<SubSeq(s, 3, Len(s))>>

\* The non-empty prefixes of a path: the directories os.MkdirAll makes sure of.
Prefixes(p) == { SubSeq(p, 1, k) : k \in 1..Len(p) }

\* os.MkdirAll(p): p and every missing parent of p exist afterwards.
MkdirAll(d, p) == d \cup Prefixes(p)

\* os.MkdirAll(p) failing after it created the first k components of p.
MkdirAllUpTo(d, p, k) == d \cup { q \in Prefixes(p) : Len(q) <= k }

\* (mutant of MkdirAllFails) os.Mkdir: a directory that exists is an error.
MkdirFails(f, p) == p \in dirs \/ \E q \in Prefixes(p) : q \in DOMAIN f

\* os.MkdirAll(p) cannot succeed: a component of p is a regular file.  (A
\* directory that exists already is no error.)
MkdirAllFails(f, p) == \E q \in Prefixes(p) : q \in DOMAIN f

\* os.Create(p) cannot succeed: p is a directory.  (A file that exists already
\* is no error: it is truncated.)
CreateFails(d, p) == p \in d

(***************************************************************************)
(* zlib.                                                                   *)
(***************************************************************************)
ZlibHeader == <<120, 156>>

Checksum(s) == (1 + SumBytes(s)) % 251

\* zlib.NewWriter(&b); w.Write(content); w.Close(); b.Bytes()
Compress(c) == ZlibHeader \o <<Len(c)>> \o c \o <<Checksum(c)>>

\* zlib.NewReader: the two header bytes are there and are a zlib header.
HeaderOk(z) ==
    /\ Len(z) >= 2
    /\ z[1] % 16 = 8
    /\ z[1] \div 16 <= 7
    /\ (z[1] * 256 + z[2]) % 31 = 0

\* (mutant of BodyOk) the checksum is not compared.
BodyOkNoChecksum(z) == Len(z) >= 3 /\ Len(z) >= 3 + z[3] + 1

\* (mutant of BodyOk) the error of ioutil.ReadAll is dropped.
BodyOkErrDropped(z) == Len(z) >= 3

\* ioutil.ReadAll(raw): the block is complete and its checksum matches.
BodyOk(z) ==
    /\ Len(z) >= 3
    /\ Len(z) >= 3 + z[3] + 1
    /\ z[3 + z[3] + 1] = Checksum(SubSeq(z, 4, 3 + z[3]))

\* The bytes ioutil.ReadAll has read from the block when it returns.
Inflate(z) == SubSeq(z, 4, IF 3 + z[3] <= Len(z) THEN 3 + z[3] ELSE Len(z))

(***************************************************************************)
(* The file system operations Write performs.                              *)
(***************************************************************************)
\* os.Create(p): the file exists afterwards and is empty (O_CREATE|O_TRUNC).
CreateFile(f, p) == [q \in DOMAIN f \cup {p} |-> IF q = p THEN <<>> ELSE f[q]]

\* (mutant of Overwrite) the file is open with O_APPEND: off is ignored.
OverwriteAppend(old, off, bs) == old \o bs

\* One write(2) of bs at byte offset off of a file holding old: a gap between
\* the end of the file and off reads as zero bytes, what lies after stays.
Overwrite(old, off, bs) ==
    [i \in 1..(IF Len(old) > off + Len(bs) THEN Len(old) ELSE off + Len(bs)) |->
        IF i > off /\ i <= off + Len(bs) THEN bs[i - off]
        ELSE IF i <= Len(old) THEN old[i]
        ELSE 0]

\* nFile.Write at offset off of the open file p.
WriteAt(f, p, off, bs) == [f EXCEPT ![p] = Overwrite(f[p], off, bs)]

(***************************************************************************)
(* ReadObjectFile and ReadObject.  A call is one atomic read of the file   *)
(* system.  Its result is [panicked, err, obj, data]: when the call        *)
(* panics (a slice expression out of range) nothing is returned, and err,  *)
(* obj and data hold their zero values.                                    *)
(***************************************************************************)
\* ReadObjectFile: the decompressed content of the file, or an error.
ReadObjectFile(f, objectpath) ==
    IF objectpath \notin DOMAIN f
        THEN [err |-> "IOError", data |-> <<>>]
    ELSE IF ~HeaderOk(f[objectpath])
        THEN [err |-> "CorruptObject", data |-> <<>>]
    ELSE IF ~BodyOk(f[objectpath])
        THEN [err |-> "CorruptObject", data |-> <<>>]
    ELSE [err |-> "none", data |-> Inflate(f[objectpath])]

\* fData[lo:hi] is in range (Go panics otherwise).
SliceOk(s, lo, hi) == 0 <= lo /\ lo <= hi /\ hi <= Len(s)

\* ReadObject, lines 121-128, on the decompressed content fData.
Parse(fData) ==
    LET x == IndexByte(fData, Space)
        y == IndexByte(fData, Null)
    IN  IF ~SliceOk(fData, 0, x) \/ ~SliceOk(fData, x + 1, y)
            \/ ~SliceOk(fData, y + 1, Len(fData))
            THEN [panicked |-> TRUE, err |-> "none", obj |-> EmptyObject]
        ELSE [panicked |-> FALSE, err |-> "none",
              obj |-> [Kind |-> SubSeq(fData, 1, x),
                       Size |-> SubSeq(fData, x + 2, y),
                       Data |-> SubSeq(fData, y + 2, Len(fData))]]

\* ReadObject
ReadObject(d, f, objectpath) ==
    IF objectpath \notin DOMAIN f /\ objectpath \notin d
        THEN [panicked |-> FALSE, err |-> "NotFound", obj |-> EmptyObject]
    ELSE LET r == ReadObjectFile(f, objectpath)
         IN  IF r.err # "none"
                 THEN [panicked |-> FALSE, err |-> r.err, obj |-> EmptyObject]
             ELSE Parse(r.data)

(***************************************************************************)
(* State.  res is the outcome of the last completed call:                  *)
(*   [op, obj, path, addr, err, panicked, out]                             *)
(* with obj the object a Write was called on, path the path a Write wrote  *)
(* to or a ReadObject read, addr the address Write returned, and out the   *)
(* object ReadObject returned.  procs is the state of the Writes in        *)
(* progress (used by SpecRace only).                                       *)
(***************************************************************************)
NoObject == [Kind |-> <<>>, Data |-> <<>>]

NoRes == [op |-> "none", obj |-> NoObject, path |-> <<>>, addr |-> <<>>,
          err |-> "none", panicked |-> FALSE, out |-> EmptyObject]

WriteRes(obj, path, addr, err) ==
    [op |-> "Write", obj |-> obj, path |-> path, addr |-> addr,
     err |-> err, panicked |-> FALSE, out |-> EmptyObject]

ReadRes(path, r) ==
    [op |-> "ReadObject", obj |-> NoObject, path |-> path, addr |-> <<>>,
     err |-> r.err, panicked |-> r.panicked, out |-> r.obj]

Writers == {"w1", "w2"}

IdleProc == [pc |-> "idle", obj |-> NoObject, off |-> 0, addr |-> <<>>, err |-> "none"]

\* The store root may or may not exist yet; the store holds no object.
Init ==
    /\ dirs \in { {WorkDir}, {WorkDir, GitDir} }
    /\ files = <<>>
    /\ res = NoRes
    /\ procs = [w \in Writers |-> IdleProc]

\* The frame, address and compressed frame of each object of the model, as
\* tables (f @@ <<>> is f, and makes TLC compute the table once).
contentOf == [o \in Objects |-> content(o)] @@ <<>>

shaStrOf == [o \in Objects |-> shaStr(o)] @@ <<>>

compressedOf == [o \in Objects |-> Compress(contentOf[o])] @@ <<>>

\* The path Write(gitdir) stores obj at.
ObjectPath(obj) == nFilePath(GitDir, shaStrOf[obj])

ObjectDir(obj) == FanOutDir(GitDir, shaStrOf[obj])

\* The fan-out directories that exist.
FanOutDirs == { d \in dirs : Len(d) = Len(GitDir) + 2 }

\* One write(2) of the bytes from offset off on transfers all of them, or
\* (a short write) the first half of them, rounded up.
ShortWrite(z, off) == off + ((Len(z) - off + 1) \div 2)

\* The offsets nFile.Write can have reached when a write(2) fails.
RECURSIVE Offsets(_, _)
Offsets(z, off) ==
    IF off >= Len(z) THEN {} ELSE {off} \cup Offsets(z, ShortWrite(z, off))

(***************************************************************************)
(* GitObject.Write as one call: it runs to its return, or fails at one of  *)
(* its four error returns (lines 47, 53, 59, 72).  A failing MkdirAll may  *)
(* have created the first k components of the path; a failing nFile.Write  *)
(* may have written the first k bytes (k less than all of them).           *)
(***************************************************************************)
Write(obj, gitdir) ==
    LET s  == shaStrOf[obj]
        dp == FanOutDir(gitdir, s)
        fp == nFilePath(gitdir, s)
        z  == compressedOf[obj]
    IN  /\ \/ \E k \in 0..(Len(dp) - 1) :
                /\ dirs' = MkdirAllUpTo(dirs, dp, k)
                /\ files' = files
                /\ res' = WriteRes(obj, fp, <<>>, "IOError")
           \/ /\ ~MkdirAllFails(files, dp)
              /\ dirs' = MkdirAll(dirs, dp)
              /\ files' = files
              /\ res' = WriteRes(obj, fp, <<>>, "IOError")
           \/ \E k \in Offsets(z, 0) :
                /\ ~MkdirAllFails(files, dp)
                /\ ~CreateFails(dirs, fp)
                /\ dirs' = MkdirAll(dirs, dp)
                /\ files' = WriteAt(CreateFile(files, fp), fp, 0, SubSeq(z, 1, k))
                /\ res' = WriteRes(obj, fp, <<>>, "IOError")
           \/ /\ ~MkdirAllFails(files, dp)
              /\ ~CreateFails(dirs, fp)
              /\ dirs' = MkdirAll(dirs, dp)
              /\ files' = WriteAt(CreateFile(files, fp), fp, 0, z)
              /\ res' = WriteRes(obj, fp, s, "none")
        /\ UNCHANGED procs

\* ReadObject(objectpath) as one call.
ReadObjectCall(objectpath) ==
    /\ res' = ReadRes(objectpath, ReadObject(dirs, files, objectpath))
    /\ UNCHANGED <<dirs, files, procs>>

\* The store holds at most MaxObjects object files, in at most MaxObjects
\* fan-out directories.
Room(obj) ==
    /\ ObjectDir(obj) \in dirs \/ Cardinality(FanOutDirs) < MaxObjects
    /\ ObjectPath(obj) \in DOMAIN files \/ Cardinality(DOMAIN files) < MaxObjects

\* The paths the sequential caller reads: the gitdir, and the paths of the
\* objects it has written or tried to write (their fan-out directory exists).
ReadPaths == {GitDir} \cup { ObjectPath(o) : o \in {q \in Objects : ObjectDir(q) \in dirs} }

Next ==
    \/ \E obj \in Objects : Room(obj) /\ Write(obj, GitDir)
    \/ \E p \in ReadPaths : ReadObjectCall(p)

Spec == Init /\ [][Next]_vars

(***************************************************************************)
(* SpecDecode: ReadObject on a file that some other program left in the    *)
(* work directory, or on a path where there is no file.  The file holds a  *)
(* compressed stream of any content up to MaxRaw bytes, such a stream cut  *)
(* short, such a stream with a byte of its header or its checksum changed, *)
(* or bytes that were never compressed.                                    *)
(***************************************************************************)
RawBytes == {Null, Space, 98}

RawContents == SeqsUpTo(RawBytes, MaxRaw)

Streams == { Compress(r) : r \in RawContents }

Truncated == { SubSeq(z, 1, k) : z \in Streams, k \in 0..4 }
                 \cup { SubSeq(z, 1, Len(z) - 1) : z \in Streams }

Damaged == { [z EXCEPT ![1] = 0] : z \in Streams }
               \cup { [z EXCEPT ![Len(z)] = (z[Len(z)] + 1) % 256] : z \in Streams }

ForeignContents == Streams \cup Truncated \cup Damaged \cup RawContents

\* "work/f"
ForeignPath == WorkDir \o << <<102>> >>

InitDecode ==
    /\ dirs = {WorkDir}
    /\ \/ files = <<>>
       \/ \E c \in ForeignContents : files = (ForeignPath :> c)
    /\ res = NoRes
    /\ procs = [w \in Writers |-> IdleProc]

NextDecode == \E p \in {ForeignPath, WorkDir} : ReadObjectCall(p)

SpecDecode == InitDecode /\ [][NextDecode]_vars

(***************************************************************************)
(* SpecRace: two callers run one Write each, step by step, while a third   *)
(* calls ReadObject.  A step is one system call with the computation that  *)
(* follows it up to the next one.                                          *)
(*   pc = "idle"    Write has not been called                              *)
(*        "mkdir"   at line 46, before os.MkdirAll                         *)
(*        "create"  at line 52, before filepath.Abs and os.Create          *)
(*        "write"   at line 71, inside nFile.Write, off bytes written      *)
(*        "done"    returned (addr, err)                                   *)
(***************************************************************************)
\* Lines 27-43: the call, the frame and its address.
Call(w, obj) ==
    /\ procs[w].pc = "idle"
    /\ procs' = [procs EXCEPT ![w] = [@ EXCEPT !.pc = "mkdir", !.obj = obj]]
    /\ UNCHANGED <<dirs, files, res>>

Return(w, addr, err) ==
    procs' = [procs EXCEPT ![w] = [@ EXCEPT !.pc = "done", !.addr = addr, !.err = err]]

\* Lines 46-49.
MkdirStep(w) ==
    LET dp == ObjectDir(procs[w].obj)
    IN  /\ procs[w].pc = "mkdir"
        /\ \/ \E k \in 0..(Len(dp) - 1) :
                /\ dirs' = MkdirAllUpTo(dirs, dp, k)
                /\ Return(w, <<>>, "IOError")
           \/ /\ ~MkdirAllFails(files, dp)
              /\ dirs' = MkdirAll(dirs, dp)
              /\ procs' = [procs EXCEPT ![w].pc = "create"]
        /\ UNCHANGED <<files, res>>

\* Lines 52-62.
CreateStep(w) ==
    LET fp == ObjectPath(procs[w].obj)
    IN  /\ procs[w].pc = "create"
        /\ \/ /\ Return(w, <<>>, "IOError")
              /\ files' = files
           \/ /\ ~CreateFails(dirs, fp)
              /\ files' = CreateFile(files, fp)
              /\ procs' = [procs EXCEPT ![w] = [@ EXCEPT !.pc = "write", !.off = 0]]
        /\ UNCHANGED <<dirs, res>>

\* Lines 65-77: one write(2) of nFile.Write, and the return when it was the last.
WriteStep(w) ==
    LET obj == procs[w].obj
        fp  == ObjectPath(obj)
        z   == compressedOf[obj]
        off == procs[w].off
        nxt == ShortWrite(z, off)
    IN  /\ procs[w].pc = "write"
        /\ \/ /\ Return(w, <<>>, "IOError")
              /\ files' = files
           \/ /\ nxt < Len(z)
              /\ files' = WriteAt(files, fp, off, SubSeq(z, off + 1, nxt))
              /\ procs' = [procs EXCEPT ![w].off = nxt]
           \/ /\ files' = WriteAt(files, fp, off, SubSeq(z, off + 1, Len(z)))
              /\ procs' = [procs EXCEPT ![w] =
                              [@ EXCEPT !.pc = "done", !.off = Len(z),
                                        !.addr = shaStrOf[obj], !.err = "none"]]
        /\ UNCHANGED <<dirs, res>>

\* The paths the reader reads: those of the objects being written.
RacePaths == { ObjectPath(procs[w].obj) : w \in {v \in Writers : procs[v].pc # "idle"} }

NextRace ==
    \/ \E w \in Writers, obj \in Objects : Call(w, obj)
    \/ \E w \in Writers : MkdirStep(w)
    \/ \E w \in Writers : CreateStep(w)
    \/ \E w \in Writers : WriteStep(w)
    \/ \E p \in RacePaths : ReadObjectCall(p)

SpecRace == Init /\ [][NextRace]_vars

(***************************************************************************)
(* What the claims speak of, stated apart from the code above.             *)
(***************************************************************************)
\* The frame of (kind, payload): kind, a space, the decimal length of the
\* payload, a null byte, the payload.
SpecFrame(obj) == obj.Kind \o <<32>> \o Itoa(Len(obj.Data)) \o <<0>> \o obj.Data

\* c is a frame of obj whatever its size field holds.
IsFrameOf(obj, c) ==
    /\ Len(c) >= Len(obj.Kind) + 2 + Len(obj.Data)
    /\ SubSeq(c, 1, Len(obj.Kind) + 1) = obj.Kind \o <<32>>
    /\ SubSeq(c, Len(c) - Len(obj.Data), Len(c)) = <<0>> \o obj.Data

\* <root>/objects/<first 2 characters of a>/<the remaining characters>
StorePath(a) == GitDir \o <<ObjectsName, <<a[1], a[2]>>, SubSeq(a, 3, Len(a))>>

\* 40 lowercase hexadecimal characters
IsAddress(a) == Len(a) = 40 /\ \A i \in 1..40 : a[i] \in (48..57) \cup (97..102)

\* The address of a frame.
AddressOf(c) == EncodeToString(sha(c))

\* z begins with a complete compressed stream: it decompresses.
IsStream(z) ==
    /\ Len(z) >= 4
    /\ Len(z) >= z[3] + 4
    /\ SubSeq(z, 1, z[3] + 4) = Compress(SubSeq(z, 4, z[3] + 3))

StreamData(z) == SubSeq(z, 4, z[3] + 3)

\* A frame that Decode must refuse: no space, no null, or null before space.
Malformed(c) ==
    \/ IndexByte(c, 32) < 0
    \/ IndexByte(c, 0) < 0
    \/ IndexByte(c, 0) < IndexByte(c, 32)

\* The last call was Write and returned without error.
WriteOk == res.op = "Write" /\ res.err = "none"

\* C1: the frame that Write hashes and stores is kind, 0x20, the decimal
\* byte length of the payload, 0x00, payload (the empty payload gives 0).
C1_FrameHasPayloadLength ==
    WriteOk =>
        /\ res.addr = AddressOf(SpecFrame(res.obj))
        /\ files[res.path] = Compress(SpecFrame(res.obj))

\* C2: ReadObject on the file of a successfully written (kind, payload)
\* returns Kind = kind, Size = the decimal text of len(payload), Data = payload.
C2_StoreRoundTrip ==
    \A o \in Objects :
        ( /\ res.op = "ReadObject"
          /\ res.path = StorePath(AddressOf(content(o)))
          /\ res.path \in DOMAIN files
          /\ files[res.path] = Compress(content(o)) )
        => /\ ~res.panicked
           /\ res.err = "none"
           /\ res.out = [Kind |-> o.Kind, Size |-> Itoa(Len(o.Data)), Data |-> o.Data]

\* C3: on a file whose decompressed content has no space byte, no null byte,
\* or its first null byte before its first space byte, ReadObject returns a
\* MalformedFrame error and an empty object; it does not panic.
C3_MalformedFrameIsAnError ==
    ( /\ res.op = "ReadObject"
      /\ res.path \in DOMAIN files
      /\ IsStream(files[res.path])
      /\ Malformed(StreamData(files[res.path])) )
    => /\ ~res.panicked
       /\ res.err = "MalformedFrame"
       /\ res.out = EmptyObject

\* What C4 says of one call of Write: a returned address is 40 lowercase hex
\* characters, the digest of the frame of the object, and the file at its
\* path holds exactly the compressed frame; a failed call returns the empty
\* address.
C4_Call ==
    /\ WriteOk =>
          /\ IsAddress(res.addr)
          /\ res.path = StorePath(res.addr)
          /\ res.path \in DOMAIN files
          /\ IsStream(files[res.path])
          /\ files[res.path] = Compress(StreamData(files[res.path]))
          /\ IsFrameOf(res.obj, StreamData(files[res.path]))
          /\ res.addr = AddressOf(StreamData(files[res.path]))
    /\ (res.op = "Write" /\ res.err # "none") => res.addr = <<>>

\* C4 as stated: ..., and after any sequence of completed Writes every object
\* file's path is the address of its own decompressed content.
C4_EveryFileIsAddressed ==
    /\ C4_Call
    /\ \A p \in DOMAIN files :
          /\ IsStream(files[p])
          /\ p = StorePath(AddressOf(StreamData(files[p])))

\* C4 as amended: ..., and after any sequence of completed Writes every object
\* file that decompresses has as its path the address of its decompressed
\* content (a Write that failed at its write step leaves a file that does not).
C4_EveryStreamIsAddressed ==
    /\ C4_Call
    /\ \A p \in DOMAIN files :
          IsStream(files[p]) => p = StorePath(AddressOf(StreamData(files[p])))

C4_Witness ==
    /\ WriteOk
    /\ res.path \in DOMAIN files
    /\ IsStream(files[res.path])

\* A Write of obj that returns without error.
WriteAgain(obj) == Write(obj, GitDir) /\ res'.err = "none"

\* C5: after a successful Write of (kind, payload), a second Write of it can
\* succeed although the directory and the file exist, and when it does it
\* returns the same address and leaves directories and files as they were.
C5_IdempotentWrite ==
    /\ [](\A o \in Objects : (WriteOk /\ res.obj = o) => ENABLED WriteAgain(o))
    /\ [][\A o \in Objects :
            (WriteOk /\ res.obj = o /\ WriteAgain(o))
            => (res'.addr = res.addr /\ dirs' = dirs /\ files' = files)]_vars

C5_Witness ==
    /\ WriteOk
    /\ FanOutDir(GitDir, res.addr) \in dirs
    /\ files[res.path] = Compress(content(res.obj))

\* C9: Write never creates the store root: a gitdir that does not exist
\* before a call does not exist after it.
C9_RootNeverCreated == [][GitDir \notin dirs => GitDir \notin dirs']_vars

\* C8: ReadObject on a path where nothing exists returns a NotFound error, on
\* a file that is no valid compressed stream a CorruptObject error; in both
\* cases the object returned is empty and no file or directory changes.
C8_ReadErrors ==
    [][ res'.op = "ReadObject" =>
          /\ (res'.path \notin DOMAIN files /\ res'.path \notin dirs) =>
                (~res'.panicked /\ res'.err = "NotFound" /\ res'.out = EmptyObject
                 /\ dirs' = dirs /\ files' = files)
          /\ (res'.path \in DOMAIN files /\ ~IsStream(files[res'.path])) =>
                (~res'.panicked /\ res'.err = "CorruptObject" /\ res'.out = EmptyObject
                 /\ dirs' = dirs /\ files' = files) ]_vars

C8_Witness ==
    /\ res.op = "ReadObject"
    /\ res.err = "CorruptObject"
    /\ res.path \in DOMAIN files
    /\ Len(files[res.path]) > 0
    /\ ~IsStream(files[res.path])

\* Writer w has returned from Write without error.
Returned(w) == procs[w].pc = "done" /\ procs[w].err = "none"

\* C6: when two Writes of the same (kind, payload) have raced and both have
\* returned, they returned the same address and the file at the derived path
\* holds exactly the complete compressed frame.
C6_SameObjectRace ==
    \A v \in Writers, w \in Writers :
        (v # w /\ Returned(v) /\ Returned(w) /\ procs[v].obj = procs[w].obj)
        => /\ procs[v].addr = procs[w].addr
           /\ IsAddress(procs[v].addr)
           /\ StorePath(procs[v].addr) \in DOMAIN files
           /\ files[StorePath(procs[v].addr)] = Compress(content(procs[v].obj))

C6_Witness ==
    /\ \A w \in Writers : Returned(w)
    /\ procs["w1"].obj = procs["w2"].obj
    /\ procs["w1"].addr = procs["w2"].addr

\* Objects with different frames are stored at different paths.
DistinctPaths ==
    \A o \in Objects, q \in Objects :
        contentOf[o] # contentOf[q]
        => nFilePath(GitDir, shaStrOf[o]) # nFilePath(GitDir, shaStrOf[q])

\* C7: two objects with different frames are stored at different paths, and
\* a step of a Write of one object changes the file of no other object, also
\* when both lie in the same fan-out directory.
C7_NoCollision ==
    [][ /\ DistinctPaths
        /\ \A w \in Writers :
              procs'[w] # procs[w]
              => \A p \in DOMAIN files :
                    p # StorePath(shaStrOf[procs'[w].obj])
                    => (p \in DOMAIN files' /\ files'[p] = files[p]) ]_vars

C7_Witness ==
    /\ \A w \in Writers : Returned(w)
    /\ procs["w1"].obj # procs["w2"].obj
    /\ ObjectDir(procs["w1"].obj) = ObjectDir(procs["w2"].obj)
    /\ \A w \in Writers :
          files[ObjectPath(procs[w].obj)] = Compress(content(procs[w].obj))

\* The outcome r of a ReadObject is the object obj.
Reads(r, obj) ==
    /\ ~r.panicked
    /\ r.err = "none"
    /\ r.out.Kind = obj.Kind
    /\ r.out.Data = obj.Data

\* Another Write of the object of w has created (truncated) the file and has
\* not returned without error.
Overwriting(w) ==
    \E v \in Writers \ {w} :
        /\ procs[v].obj = procs[w].obj
        /\ procs[v].pc = "write" \/ (procs[v].pc = "done" /\ procs[v].err # "none")

\* C10 as stated: once a Write of an object has returned without error, every
\* later ReadObject on its path returns the object, also between the steps of
\* another Write of the same object and also when that Write then fails.
C10_ReadersAlwaysSeeObject ==
    [][ res' # res =>
          \A w \in Writers :
              (Returned(w) /\ res'.path = StorePath(procs[w].addr))
              => Reads(res', procs[w].obj) ]_vars

\* C10 as amended: once a Write of an object has returned without error, a
\* later ReadObject on its path returns the object unless another Write of
\* the same object has created (truncated) the file and has not returned
\* without error; then it returns the object or, with an empty object, a
\* CorruptObject error.
C10_ReadersSeeObjectOrCorrupt ==
    [][ res' # res =>
          \A w \in Writers :
              (Returned(w) /\ res'.path = StorePath(procs[w].addr))
              => \/ Reads(res', procs[w].obj)
                 \/ /\ Overwriting(w)
                    /\ ~res'.panicked
                    /\ res'.err = "CorruptObject"
                    /\ res'.out = EmptyObject ]_vars

C10_Witness ==
    /\ Returned("w1")
    /\ procs["w2"].obj = procs["w1"].obj
    /\ procs["w2"].pc = "write"
    /\ res.op = "ReadObject"
    /\ res.path = StorePath(procs["w1"].addr)
    /\ res.err = "CorruptObject"

====
